---- MODULE Spec2Model ----
(***************************************************************************)
(* Model of cpm::Instance (src/src/cpm.hpp): a producer/consumer engine.   *)
(* Producer threads call commit/commits, one controller thread calls       *)
(* start/stop one after the other, and the worker thread spawned by start  *)
(* runs worker() / get_items_and_wait().                                   *)
(*                                                                         *)
(* The flush loop of stop() only touches data guarded by queue_lock_ and is *)
(* one step (guard: the lock is free).  commits holds the lock over one    *)
(* step per input, and the worker over several steps because it reads      *)
(* run_, which stop() writes without the lock.  A promise is named by the  *)
(* position of its item in push order.                                     *)
(* The accesses to the volatile run_ are interleaved one access at a time. *)
(***************************************************************************)
EXTENDS Integers, Sequences, FiniteSets, TLC

\* ---------------------------------------------------------------- bounds
MaxItems == 3        \* items committed in one behaviour
MaxBlock == 2        \* largest inputs vector of one commits call
MaxBatch == 2        \* largest max_items_processed passed to start
NumProducers == 2    \* producer threads

Ids == 1..MaxItems

\* Result(): the value-initialised Result
Default == 0

VARIABLES
  run_,                  \* volatile bool run_
  input_queue_,          \* std::queue<Item>, front first
  queue_lock_,           \* "free", "worker" or "producer" (stop's critical section is one step)
  waiting,               \* the worker is blocked inside cond_.wait
  worker_,               \* worker_ holds a thread
  max_items_processed_,
  wpc,                   \* position of the worker thread, "none" when there is no thread
  model,                 \* worker's local shared_ptr<Model>: 0 = null, 1 = the Model it loaded
  fetch_items,           \* worker's local vector<Item>
  ret,                   \* worker's local result of forwards
  di,                    \* loop index i of the distribution loop, 0 outside the loop
  threads,               \* worker threads that were spawned and have not ended
  status,                \* promise<bool> of start: "unset", "true" or "false"
  cpc,                   \* position of the controller thread
  op,                    \* call the controller is in or has last returned from
  startRet,              \* value returned by the last start
  notifying,             \* number of producers between their push and their notify_one
  looping,               \* a producer is inside the loop of commits
  inp,                   \* inputs of the commits call that pushed last
  out,                   \* futures that call has collected so far (promise ids);
                         \* both are dropped when a producer next returns
  pro,                   \* per promise: the set_value calls made on it, in order
  nextId,                \* next promise to allocate
  pushed,                \* history: items in the order they were pushed
  fwdLog,                \* history: the promises of the items passed to forwards, in order
  atStop,                \* history: promises pushed when the current/last stop was invoked;
                         \* both are dropped when start spawns its worker
  atStopQ                \* history: promises in the queue when the current/last stop was invoked

vars == <<run_, input_queue_, queue_lock_, waiting, worker_, max_items_processed_,
          wpc, model, fetch_items, ret, di, threads, status, cpc, op,
          startRet, notifying, looping, inp, out, pro, nextId, pushed, fwdLog,
          atStop, atStopQ>>

ctlVars == <<cpc, op, startRet, atStop, atStopQ>>
prodVars == <<notifying, looping, inp, out, nextId, pushed>>
workVars == <<wpc, model, fetch_items, ret, di, threads>>

\* ---------------------------------------------------------------- helpers
SeqIds(s) == {s[i].id : i \in 1..Len(s)}

IdSeq(s) == [i \in 1..Len(s) |-> s[i].id]

Restrict(s, S) == SelectSeq(s, LAMBDA x : x \in S)

Min(a, b) == IF a < b THEN a ELSE b

\* the input submitted with the n-th item of the behaviour: inputs are opaque
\* to the engine, distinct values stand for them
InputOf(n) == 10 + n

\* what the Model computes for one input; never the default Result
Forward(x) == 100 + x

\* ---------------------------------------------------------------- promise
\* set_value(v) on promise id, made by thread who
SetValue(f, id, who, v) == [f EXCEPT ![id] = Append(@, [by |-> who, v |-> v])]

\* ---------------------------------------------------------------- condition variable
\* cond_.notify_one(): wakes the worker if it is blocked in wait, else nothing
NotifyOne == 
  IF waiting THEN waiting' = FALSE /\ wpc' = "lock"
  ELSE UNCHANGED <<waiting, wpc>>

Init ==
  /\ run_ = FALSE
  /\ input_queue_ = <<>>
  /\ queue_lock_ = "free"
  /\ waiting = FALSE
  /\ worker_ = FALSE
  /\ max_items_processed_ = 0
  /\ wpc = "none"
  /\ model = 0
  /\ fetch_items = <<>>
  /\ ret = <<>>
  /\ di = 0
  /\ threads = 0
  /\ status = "unset"
  /\ cpc = "idle"
  /\ op = "none"
  /\ startRet = FALSE
  /\ notifying = 0
  /\ looping = FALSE
  /\ inp = <<>>
  /\ out = <<>>
  /\ pro = [i \in Ids |-> <<>>]
  /\ nextId = 1
  /\ pushed = <<>>
  /\ fwdLog = <<>>
  /\ atStop = {}
  /\ atStopQ = {}

\* ---------------------------------------------------------------- commit / commits
\* The producer threads run the same code and differ in nothing the engine
\* sees, so they are counted: NumProducers threads, of which `notifying` are
\* between push and notify_one and at most one is inside the loop of commits.
Idle == NumProducers - notifying - (IF looping THEN 1 ELSE 0)

\* input_queue_.push(item)
Push(q, item) == Append(q, item)

\* what the engine is doing when an item is pushed: "run" while run_ is set or
\* a stop() has not yet run its flush loop, "starting" when run_ is clear and
\* a start() is past the flush of its stop(), "stopped" when run_ is clear and
\* no start() is in progress (never started, stop() past its flush or
\* returned, failed start returned)
PushPhase ==
  IF run_ \/ cpc \in {"stop_run", "stop_notify", "stop_flush"} THEN "run"
  ELSE IF op = "start" /\ cpc \in {"stop_join", "start_spawn", "start_wait"} THEN "starting"
  ELSE "stopped"

\* history: the item as it travels through the queue and the worker's batch,
\* labelled with the phase of its push; Item itself holds input and pro only
Labelled(item) == [id |-> item.id, input |-> item.input, phase |-> PushPhase]

\* lines 99-105: commit(input) makes the item and pushes it inside its
\* critical section
Commit ==
  /\ Idle > 0
  /\ nextId <= MaxItems
  /\ queue_lock_ = "free"
  /\ LET item == [id |-> nextId, input |-> InputOf(nextId)]
     IN /\ input_queue_' = Push(input_queue_, Labelled(item))
        /\ pushed' = Push(pushed, item)
  /\ nextId' = nextId + 1
  /\ notifying' = notifying + 1
  /\ UNCHANGED <<looping, inp, out>>
  /\ UNCHANGED <<run_, queue_lock_, waiting, worker_, max_items_processed_, pro, fwdLog>>
  /\ UNCHANGED workVars /\ UNCHANGED ctlVars /\ UNCHANGED status

\* commits with the lock taken per push instead of around the loop
LockPerPush(xs, i) == "free"

\* the lock after commits has pushed input number i of xs: it is kept until the
\* loop over the inputs ends (lines 114-123)
LockAfterPush(xs, i) == IF i < Len(xs) THEN "producer" ELSE "free"

\* lines 117-121: make the item for input number i of xs around a new promise,
\* put its future in output and push it
PushInput(xs, i) ==
  LET item == [id |-> nextId, input |-> xs[i]]
  IN /\ input_queue_' = Push(input_queue_, Labelled(item))
     /\ pushed' = Push(pushed, item)
     /\ inp' = xs
     /\ out' = Append(IF i = 1 THEN <<>> ELSE out, item.id)
     /\ nextId' = nextId + 1
     /\ queue_lock_' = LockAfterPush(xs, i)
     /\ looping' = (i < Len(xs))
     /\ notifying' = IF i < Len(xs) THEN notifying ELSE notifying + 1
     /\ UNCHANGED <<run_, waiting, worker_, max_items_processed_, pro, fwdLog>>
     /\ UNCHANGED workVars /\ UNCHANGED ctlVars /\ UNCHANGED status

\* lines 112-121: commits(inputs) takes the lock and pushes the first input;
\* 1..MaxBlock inputs (an empty vector pushes nothing and only notifies,
\* which SpuriousWake covers)
Commits ==
  /\ Idle > 0
  /\ queue_lock_ = "free"
  /\ \E k \in 1..MaxBlock :
       /\ nextId + k - 1 <= MaxItems
       /\ PushInput([i \in 1..k |-> InputOf(nextId + i - 1)], 1)

\* lines 115-123: the next iteration of the loop of commits, the lock still held
CommitsPush ==
  /\ looping
  /\ PushInput(inp, Len(out) + 1)

\* commit that returns without notifying
CommitNoNotify ==
  /\ notifying > 0
  /\ notifying' = notifying - 1
  /\ inp' = IF looping THEN inp ELSE <<>>
  /\ out' = IF looping THEN out ELSE <<>>
  /\ UNCHANGED <<run_, input_queue_, queue_lock_, waiting, worker_, max_items_processed_,
                 wpc, model, fetch_items, ret, di, status,
                 looping, nextId, pushed, pro, fwdLog>>
  /\ UNCHANGED threads
  /\ UNCHANGED ctlVars

\* lines 106-107 and 124-125: cond_.notify_one() and return
CommitNotify ==
  /\ notifying > 0
  /\ NotifyOne
  /\ notifying' = notifying - 1
  /\ inp' = IF looping THEN inp ELSE <<>>
  /\ out' = IF looping THEN out ELSE <<>>
  /\ UNCHANGED <<run_, input_queue_, queue_lock_, worker_, max_items_processed_,
                 model, fetch_items, ret, di, status,
                 looping, nextId, pushed, pro, fwdLog>>
  /\ UNCHANGED threads
  /\ UNCHANGED ctlVars

\* ---------------------------------------------------------------- stop
\* a flush that pops the items without resolving them
FlushNoResolve(f, q) == f

RECURSIVE FlushAll(_, _)
\* lines 69-83: set_value(Result()) on the front item, pop, until the queue is empty
FlushAll(f, q) ==
  IF q = <<>> THEN f ELSE FlushAll(SetValue(f, q[1].id, "stop", Default), Tail(q))

\* a call of stop() by the controller
CallStop ==
  /\ cpc = "idle"
  /\ cpc' = "stop_run"
  /\ op' = "stop"
  /\ atStop' = SeqIds(pushed)
  /\ atStopQ' = SeqIds(input_queue_)
  /\ UNCHANGED startRet
  /\ UNCHANGED <<run_, input_queue_, queue_lock_, waiting, worker_,
                 max_items_processed_, status, pro, fwdLog>>
  /\ UNCHANGED workVars /\ UNCHANGED prodVars

\* a start that does not stop the previous run first
CallStartNoStop ==
  /\ cpc = "idle"
  /\ cpc' = "start_spawn"
  /\ op' = "start"
  /\ atStop' = SeqIds(pushed)
  /\ atStopQ' = SeqIds(input_queue_)
  /\ UNCHANGED startRet
  /\ UNCHANGED <<run_, input_queue_, queue_lock_, waiting, worker_,
                 max_items_processed_, status, pro, fwdLog>>
  /\ UNCHANGED workVars /\ UNCHANGED prodVars

\* a call of start(loadmethod, max_items_processed); line 131 enters stop()
CallStart ==
  /\ cpc = "idle"
  /\ cpc' = "stop_run"
  /\ op' = "start"
  /\ atStop' = SeqIds(pushed)
  /\ atStopQ' = SeqIds(input_queue_)
  /\ UNCHANGED startRet
  /\ UNCHANGED <<run_, input_queue_, queue_lock_, waiting, worker_,
                 max_items_processed_, status, pro, fwdLog>>
  /\ UNCHANGED workVars /\ UNCHANGED prodVars

\* line 60: run_ = false
StopClearRun ==
  /\ cpc = "stop_run"
  /\ run_' = FALSE
  /\ cpc' = "stop_notify"
  /\ UNCHANGED <<op, startRet, atStop, atStopQ>>
  /\ UNCHANGED <<input_queue_, queue_lock_, waiting, worker_,
                 max_items_processed_, status, pro, fwdLog>>
  /\ UNCHANGED workVars /\ UNCHANGED prodVars

\* line 62: cond_.notify_one()
StopNotify ==
  /\ cpc = "stop_notify"
  /\ NotifyOne
  /\ cpc' = "stop_flush"
  /\ UNCHANGED <<op, startRet, atStop, atStopQ>>
  /\ UNCHANGED <<run_, input_queue_, queue_lock_, worker_,
                 max_items_processed_, status, pro, fwdLog>>
  /\ UNCHANGED <<model, fetch_items, ret, di>> /\ UNCHANGED prodVars
  /\ UNCHANGED threads

\* a stop that leaves the queue as it is
StopNoFlush ==
  /\ cpc = "stop_flush"
  /\ queue_lock_ = "free"
  /\ cpc' = "stop_join"
  /\ UNCHANGED <<op, startRet, atStop, atStopQ>>
  /\ UNCHANGED <<run_, input_queue_, queue_lock_, waiting, worker_,
                 max_items_processed_, status, pro, fwdLog>>
  /\ UNCHANGED workVars /\ UNCHANGED prodVars

\* lines 63-84: the flush loop, one critical section
StopFlush ==
  /\ cpc = "stop_flush"
  /\ queue_lock_ = "free"
  /\ pro' = FlushAll(pro, input_queue_)
  /\ input_queue_' = <<>>
  /\ cpc' = "stop_join"
  /\ UNCHANGED <<op, startRet, atStop, atStopQ>>
  /\ UNCHANGED <<run_, queue_lock_, waiting, worker_,
                 max_items_processed_, status, fwdLog>>
  /\ UNCHANGED workVars /\ UNCHANGED prodVars

\* a join that does not wait for the thread
JoinNoWait == TRUE

\* worker_->join() returns once the worker thread has terminated
Joinable == wpc = "done"

\* a stop that joins without testing worker_
StopJoinAlways ==
  /\ cpc = "stop_join"
  /\ Joinable
  /\ worker_' = FALSE
  /\ wpc' = "none"
  /\ cpc' = IF op = "start" THEN "start_spawn" ELSE "idle"
  /\ UNCHANGED <<op, startRet, atStop, atStopQ>>
  /\ UNCHANGED <<run_, input_queue_, queue_lock_, waiting,
                 max_items_processed_, status, pro, fwdLog>>
  /\ UNCHANGED <<model, fetch_items, ret, di>> /\ UNCHANGED prodVars
  /\ UNCHANGED threads

\* a stop that returns without lines 86-94
StopJoinSkip ==
  /\ cpc = "stop_join"
  /\ cpc' = IF op = "start" THEN "start_spawn" ELSE "idle"
  /\ UNCHANGED <<op, startRet, atStop, atStopQ>>
  /\ UNCHANGED <<run_, input_queue_, queue_lock_, waiting, worker_,
                 max_items_processed_, status, pro, fwdLog>>
  /\ UNCHANGED workVars /\ UNCHANGED prodVars

\* lines 86-95: join and reset the worker if there is one, then return
StopJoin ==
  /\ cpc = "stop_join"
  /\ IF worker_
       THEN /\ Joinable
            /\ worker_' = FALSE
            /\ wpc' = "none"
       ELSE UNCHANGED <<worker_, wpc>>
  /\ cpc' = IF op = "start" THEN "start_spawn" ELSE "idle"
  /\ UNCHANGED <<op, startRet, atStop, atStopQ>>
  /\ UNCHANGED <<run_, input_queue_, queue_lock_, waiting,
                 max_items_processed_, status, pro, fwdLog>>
  /\ UNCHANGED <<model, fetch_items, ret, di>> /\ UNCHANGED prodVars
  /\ UNCHANGED threads

\* ---------------------------------------------------------------- start
\* lines 133-137: store the arguments, make the status promise, spawn the worker
StartSpawn ==
  /\ cpc = "start_spawn"
  /\ \E n \in 1..MaxBatch : max_items_processed_' = n
  /\ status' = "unset"
  /\ worker_' = TRUE
  /\ wpc' = "load"
  /\ threads' = threads + 1
  /\ cpc' = "start_wait"
  /\ atStop' = {}
  /\ atStopQ' = {}
  /\ UNCHANGED <<op, startRet>>
  /\ UNCHANGED <<run_, input_queue_, queue_lock_, waiting, pro, fwdLog>>
  /\ UNCHANGED <<model, fetch_items, ret, di>> /\ UNCHANGED prodVars

\* line 138: status.get_future().get() blocks until the worker sets the status
StartReturn ==
  /\ cpc = "start_wait"
  /\ status # "unset"
  /\ startRet' = (status = "true")
  /\ cpc' = "idle"
  /\ UNCHANGED <<op, atStop, atStopQ>>
  /\ UNCHANGED <<run_, input_queue_, queue_lock_, waiting, worker_,
                 max_items_processed_, status, pro, fwdLog>>
  /\ UNCHANGED workVars /\ UNCHANGED prodVars

\* ---------------------------------------------------------------- worker
\* a worker that does not test what the loader returned
WorkerLoadNoTest ==
  /\ wpc = "load"
  /\ \E m \in {0, 1} : model' = m
  /\ wpc' = "set_run"
  /\ UNCHANGED <<run_, input_queue_, queue_lock_, waiting, worker_,
                 max_items_processed_, fetch_items, ret, di, status, pro, fwdLog>>
  /\ UNCHANGED threads
  /\ UNCHANGED ctlVars /\ UNCHANGED prodVars

\* lines 145-150: call the loader, which yields a Model or none; without a
\* Model report false and return
WorkerLoad ==
  /\ wpc = "load"
  /\ \/ /\ model' = 1
        /\ wpc' = "set_run"
        /\ UNCHANGED <<status, threads>>
     \/ /\ status' = "false"
        /\ wpc' = "done"
        /\ threads' = threads - 1
        /\ UNCHANGED model
  /\ UNCHANGED <<run_, input_queue_, queue_lock_, waiting, worker_,
                 max_items_processed_, fetch_items, ret, di, pro, fwdLog>>
  /\ UNCHANGED ctlVars /\ UNCHANGED prodVars

\* a worker that reports success without setting run_
WorkerSkipRun ==
  /\ wpc = "set_run"
  /\ wpc' = "status"
  /\ UNCHANGED <<run_, input_queue_, queue_lock_, waiting, worker_, max_items_processed_,
                 model, fetch_items, ret, di, status, pro, fwdLog>>
  /\ UNCHANGED threads
  /\ UNCHANGED ctlVars /\ UNCHANGED prodVars

\* line 152: run_ = true
WorkerSetRun ==
  /\ wpc = "set_run"
  /\ run_' = TRUE
  /\ wpc' = "status"
  /\ UNCHANGED <<input_queue_, queue_lock_, waiting, worker_, max_items_processed_,
                 model, fetch_items, ret, di, status, pro, fwdLog>>
  /\ UNCHANGED threads
  /\ UNCHANGED ctlVars /\ UNCHANGED prodVars

\* line 153: status.set_value(true)
WorkerStatus ==
  /\ wpc = "status"
  /\ status' = "true"
  /\ wpc' = "lock"
  /\ UNCHANGED <<run_, input_queue_, queue_lock_, waiting, worker_, max_items_processed_,
                 model, fetch_items, ret, di, pro, fwdLog>>
  /\ UNCHANGED threads
  /\ UNCHANGED ctlVars /\ UNCHANGED prodVars

\* line 187: the predicate of cond_.wait
WaitPred == ~run_ \/ input_queue_ # <<>>

\* lines 185-187: take the lock (on entry or after a wake-up) and evaluate the
\* predicate; when it is false the worker is about to call wait(l)
WorkerLockPred ==
  /\ wpc = "lock"
  /\ queue_lock_ = "free"
  /\ queue_lock_' = "worker"
  /\ wpc' = IF WaitPred THEN "check_run" ELSE "wait"
  /\ UNCHANGED <<run_, input_queue_, waiting, worker_, max_items_processed_,
                 model, fetch_items, ret, di, status, pro, fwdLog>>
  /\ UNCHANGED threads
  /\ UNCHANGED ctlVars /\ UNCHANGED prodVars

\* line 186: wait(l) releases the lock and blocks, atomically
WorkerWait ==
  /\ wpc = "wait"
  /\ queue_lock_' = "free"
  /\ waiting' = TRUE
  /\ wpc' = "blocked"
  /\ UNCHANGED <<run_, input_queue_, worker_, max_items_processed_,
                 model, fetch_items, ret, di, status, pro, fwdLog>>
  /\ UNCHANGED threads
  /\ UNCHANGED ctlVars /\ UNCHANGED prodVars

\* a condition variable may wake its waiter without a notify
SpuriousWake ==
  /\ waiting
  /\ waiting' = FALSE
  /\ wpc' = "lock"
  /\ UNCHANGED <<run_, input_queue_, queue_lock_, worker_, max_items_processed_,
                 model, fetch_items, ret, di, status, pro, fwdLog>>
  /\ UNCHANGED threads
  /\ UNCHANGED ctlVars /\ UNCHANGED prodVars

\* a drain that copies the front items and leaves them in the queue
DrainNoPop(q, n) ==
  [taken |-> SubSeq(q, 1, IF n < Len(q) THEN n ELSE Len(q)), rest |-> q]

\* a drain that takes the newest items instead of the oldest
DrainBack(q, n) ==
  LET k == IF n < Len(q) THEN n ELSE Len(q)
  IN [taken |-> SubSeq(q, Len(q) - k + 1, Len(q)), rest |-> SubSeq(q, 1, Len(q) - k)]

\* a drain that takes the front items and throws the rest of the queue away
DrainLose(q, n) ==
  [taken |-> SubSeq(q, 1, IF n < Len(q) THEN n ELSE Len(q)), rest |-> <<>>]

\* a drain that ignores max_size and takes the whole queue
DrainAll(q, n) == [taken |-> q, rest |-> <<>>]

\* lines 193-197: the items moved to fetch_items and the queue left behind
Drain(q, n) ==
  LET k == Min(n, Len(q))
  IN [taken |-> SubSeq(q, 1, k), rest |-> SubSeq(q, k + 1, Len(q))]

\* a get_items_and_wait whose lock outlives its return
WorkerDrainKeepLock ==
  /\ wpc = "check_run"
  /\ IF ~run_
       THEN /\ wpc' = "exit"
            /\ UNCHANGED <<input_queue_, fetch_items>>
       ELSE LET d == Drain(input_queue_, max_items_processed_)
            IN /\ fetch_items' = d.taken
               /\ input_queue_' = d.rest
               /\ wpc' = "forwards"
  /\ UNCHANGED <<run_, queue_lock_, waiting, worker_, max_items_processed_,
                 model, ret, di, status, pro, fwdLog>>
  /\ UNCHANGED threads
  /\ UNCHANGED ctlVars /\ UNCHANGED prodVars

\* lines 189-198: return false when run_ is clear, else drain and return true;
\* the lock is released on return
WorkerDrain ==
  /\ wpc = "check_run"
  /\ queue_lock_' = "free"
  /\ IF ~run_
       THEN /\ wpc' = "exit"
            /\ UNCHANGED <<input_queue_, fetch_items>>
       ELSE LET d == Drain(input_queue_, max_items_processed_)
            IN /\ fetch_items' = d.taken
               /\ input_queue_' = d.rest
               /\ wpc' = "forwards"
  /\ UNCHANGED <<run_, waiting, worker_, max_items_processed_,
                 model, ret, di, status, pro, fwdLog>>
  /\ UNCHANGED threads
  /\ UNCHANGED ctlVars /\ UNCHANGED prodVars

\* the Model's forwards: result i is computed from input i; it may return
\* fewer results than inputs, or more
Forwards(inputs, r) ==
  [i \in 1..r |-> IF i <= Len(inputs) THEN Forward(inputs[i]) ELSE Forward(0)]

\* lines 159-164: copy the inputs out of fetch_items and call forwards
WorkerForwards ==
  /\ wpc = "forwards"
  /\ \E r \in 0..(Len(fetch_items) + 1) :
       ret' = Forwards([i \in 1..Len(fetch_items) |-> fetch_items[i].input], r)
  /\ fwdLog' = fwdLog \o IdSeq(fetch_items)
  /\ di' = 0
  /\ wpc' = "distribute"
  /\ UNCHANGED <<run_, input_queue_, queue_lock_, waiting, worker_, max_items_processed_,
                 model, fetch_items, status, pro>>
  /\ UNCHANGED threads
  /\ UNCHANGED ctlVars /\ UNCHANGED prodVars

\* a distribution that gives every item the first result
ResultFirst(r, i) == IF i < Len(r) THEN r[1] ELSE Default

\* lines 167-174: the value item i (counted from 0) is resolved with
ResultFor(r, i) == IF i < Len(r) THEN r[i + 1] ELSE Default

\* a worker that releases its Model at the end of every batch
WorkerDistributeRelease ==
  /\ wpc = "distribute"
  /\ IF di < Len(fetch_items)
       THEN /\ pro' = SetValue(pro, fetch_items[di + 1].id, "worker", ResultFor(ret, di))
            /\ di' = di + 1
            /\ UNCHANGED <<fetch_items, ret, wpc, model>>
       ELSE /\ fetch_items' = <<>>
            /\ ret' = <<>>
            /\ wpc' = "lock"
            /\ model' = 0
            /\ di' = 0
            /\ UNCHANGED pro
  /\ UNCHANGED <<run_, input_queue_, queue_lock_, waiting, worker_, max_items_processed_,
                 status, fwdLog>>
  /\ UNCHANGED threads
  /\ UNCHANGED ctlVars /\ UNCHANGED prodVars

\* lines 165-177: one iteration of the distribution loop, or its end
WorkerDistribute ==
  /\ wpc = "distribute"
  /\ IF di < Len(fetch_items)
       THEN /\ pro' = SetValue(pro, fetch_items[di + 1].id, "worker", ResultFor(ret, di))
            /\ di' = di + 1
            /\ UNCHANGED <<fetch_items, ret, wpc>>
       ELSE /\ fetch_items' = <<>>
            /\ ret' = <<>>
            /\ wpc' = "lock"
            /\ di' = 0
            /\ UNCHANGED pro
  /\ UNCHANGED <<run_, input_queue_, queue_lock_, waiting, worker_, max_items_processed_,
                 model, status, fwdLog>>
  /\ UNCHANGED threads
  /\ UNCHANGED ctlVars /\ UNCHANGED prodVars

\* a worker that leaves its loop without releasing the Model
WorkerNoRelease ==
  /\ wpc = "exit"
  /\ wpc' = "exit_run"
  /\ UNCHANGED <<run_, input_queue_, queue_lock_, waiting, worker_, max_items_processed_,
                 model, fetch_items, ret, di, status, pro, fwdLog>>
  /\ UNCHANGED threads
  /\ UNCHANGED ctlVars /\ UNCHANGED prodVars

\* line 179: model.reset()
WorkerRelease ==
  /\ wpc = "exit"
  /\ model' = 0
  /\ wpc' = "exit_run"
  /\ UNCHANGED <<run_, input_queue_, queue_lock_, waiting, worker_, max_items_processed_,
                 fetch_items, ret, di, status, pro, fwdLog>>
  /\ UNCHANGED threads
  /\ UNCHANGED ctlVars /\ UNCHANGED prodVars

\* line 180: run_ = false, and the thread ends
WorkerExit ==
  /\ wpc = "exit_run"
  /\ run_' = FALSE
  /\ wpc' = "done"
  /\ threads' = threads - 1
  /\ UNCHANGED <<input_queue_, queue_lock_, waiting, worker_, max_items_processed_,
                 model, fetch_items, ret, di, status, pro, fwdLog>>
  /\ UNCHANGED ctlVars /\ UNCHANGED prodVars

\* ---------------------------------------------------------------- specification
WorkerNext ==
  \/ WorkerLoad \/ WorkerSetRun \/ WorkerStatus \/ WorkerLockPred \/ WorkerWait
  \/ WorkerDrain \/ WorkerForwards \/ WorkerDistribute \/ WorkerRelease \/ WorkerExit

ControlNext == StopClearRun \/ StopNotify \/ StopFlush \/ StopJoin \/ StartSpawn \/ StartReturn

Next ==
  \/ Commit \/ Commits \/ CommitsPush \/ CommitNotify
  \/ CallStop \/ CallStart
  \/ ControlNext
  \/ WorkerNext
  \/ SpuriousWake

Spec == Init /\ [][Next]_vars

\* the worker thread, a call in progress and a producer inside commit or
\* commits are scheduled fairly; calling start, stop, commit or commits is up to
\* the callers
FairSpec ==
  /\ Spec
  /\ WF_vars(WorkerNext)
  /\ WF_vars(ControlNext)
  /\ WF_vars(CommitsPush \/ CommitNotify)

\* ---------------------------------------------------------------- serving
\* an engine that is started once and never stopped: the only call of the
\* controller is one start.  No stop clears run_ after the worker has set it,
\* so the worker never leaves its loop and lines 179-180 are left out.
ServeStart == op = "none" /\ CallStart

ServeWorker ==
  \/ WorkerLoad \/ WorkerSetRun \/ WorkerStatus \/ WorkerLockPred \/ WorkerWait
  \/ WorkerDrain \/ WorkerForwards \/ WorkerDistribute

ServeNext ==
  \/ Commit \/ Commits \/ CommitsPush \/ CommitNotify
  \/ ServeStart
  \/ ControlNext
  \/ ServeWorker
  \/ SpuriousWake

ServeSpec ==
  /\ Init /\ [][ServeNext]_vars
  /\ WF_vars(ServeWorker)
  /\ WF_vars(ControlNext)
  /\ WF_vars(CommitsPush \/ CommitNotify)

\* ---------------------------------------------------------------- vocabulary
Range(s) == {s[i] : i \in 1..Len(s)}

WasPushed(id) == id \in SeqIds(pushed)
Queued(id) == id \in SeqIds(input_queue_)
InFlight(id) == id \in SeqIds(fetch_items)
Forwarded(id) == id \in Range(fwdLog)
Resolved(id) == Len(pro[id]) >= 1
ResolvedBy(id, who) == \E i \in 1..Len(pro[id]) : pro[id][i].by = who

InStop == cpc \in {"stop_run", "stop_notify", "stop_flush", "stop_join"}
\* the latest stop() has returned and no later start has begun to spawn its worker
StopReturned == (cpc = "idle" /\ op = "stop") \/ cpc = "start_spawn"
\* the flush loop of the latest stop() has run
AfterFlush == ~(cpc \in {"stop_run", "stop_notify", "stop_flush"})
\* start has returned true and no call has been made since
Running == cpc = "idle" /\ op = "start" /\ startRet

\* the lifecycle state of the engine, read off the worker thread: Stopped
\* without a live worker thread, Loading while the worker is in the loader or
\* has not yet set run_, Running from run_ = true (line 152) until the thread
\* ends (line 181)
Life ==
  IF wpc \in {"none", "done"} THEN "Stopped"
  ELSE IF wpc \in {"load", "set_run"} THEN "Loading"
  ELSE "Running"

\* ---------------------------------------------------------------- claims
\* C1: no promise ever has set_value called on it more than once, whatever the
\* interleaving of commit, commits, the worker loop, stop and start.
AtMostOnce == \A id \in Ids : Len(pro[id]) <= 1

\* the flush loop of a stop and the worker's distribution have both resolved
\* items while that stop is waiting in join
AtMostOnceWitness ==
  /\ cpc = "stop_join"
  /\ wpc = "distribute" /\ di >= 1
  /\ \E id \in atStopQ : ResolvedBy(id, "stop")

\* C2: every item pushed by commit or commits, in whatever lifecycle state,
\* is eventually resolved.
EventuallyResolved == \A id \in Ids : WasPushed(id) ~> Resolved(id)

\* C3: while the engine is Running and no stop is issued, every item pushed
\* is eventually drained, passed to forwards and resolved by the worker, exactly
\* once: the engine cannot stay Running for ever with an item that is still
\* queued, in flight or unresolved (items are finitely many, so from some point
\* on all of them are through).  Items flushed by the stop inside start were
\* resolved by it and never reach the worker.
NoLostWakeup ==
  <>[](Running =>
         \A id \in Ids :
           WasPushed(id) =>
             /\ Len(pro[id]) = 1
             /\ pro[id][1].by = "worker" <=> Forwarded(id)
             /\ pro[id][1].by = "stop" => ~(id \in Range(fwdLog) \cup SeqIds(fetch_items)))

\* the worker has gone back to sleep after resolving everything a Running
\* engine was given, more than one batch of it
NoLostWakeupWitness ==
  /\ Running /\ wpc = "blocked"
  /\ Len(fwdLog) > max_items_processed_
  /\ \A i \in 1..Len(fwdLog) : ResolvedBy(fwdLog[i], "worker")

\* C4: every call of stop() eventually returns.
StopTerminates == InStop ~> ~InStop

\* C5 as stated: the items in the queue when stop() is called are never passed
\* to forwards, and are resolved with the default Result only.
FlushedNeverForwarded ==
  \A id \in atStopQ :
    /\ ~Forwarded(id)
    /\ \A i \in 1..Len(pro[id]) : pro[id][i].v = Default

\* C5 as amended: an item in the queue when stop() is called is either resolved
\* by the flush, with the default Result and without ever reaching forwards, or
\* was drained by the worker before the flush ran; once the flush has run it is
\* out of the queue, and when stop() returns it is resolved.
FlushedOrDrained ==
  \A id \in atStopQ :
    /\ ResolvedBy(id, "stop") =>
         /\ pro[id] = <<[by |-> "stop", v |-> Default]>>
         /\ ~Forwarded(id) /\ ~InFlight(id) /\ ~Queued(id)
    /\ AfterFlush =>
         /\ ~Queued(id)
         /\ ResolvedBy(id, "stop") \/ InFlight(id) \/ Forwarded(id)
    /\ StopReturned => Len(pro[id]) = 1

\* a stop() has returned that found two items queued, flushed one, and lost
\* the other to the worker, which computed its result
FlushedOrDrainedWitness ==
  /\ StopReturned
  /\ \E a \in atStopQ : ResolvedBy(a, "stop")
  /\ \E b \in atStopQ : Forwarded(b) /\ pro[b] # <<>> /\ pro[b][1].v # Default

\* C6: when stop() returns, every item pushed before stop() was invoked is
\* resolved.
NoWaiterLeft == StopReturned => \A id \in atStop : Resolved(id)

\* a stop() has returned that found one item queued and one in the worker's
\* batch
NoWaiterLeftWitness ==
  /\ StopReturned
  /\ \E a \in atStop : pro[a] = <<[by |-> "stop", v |-> Default]>>
  /\ \E b \in atStop \ atStopQ : ResolvedBy(b, "worker")

\* C7: in every state where stop() has returned, there is no worker thread,
\* no forwards call in progress, worker_ is empty, run_ is false and the
\* Model is released.
StoppedMeansTerminated ==
  StopReturned =>
    /\ wpc = "none"
    /\ ~worker_
    /\ ~run_
    /\ model = 0
    /\ ~waiting /\ queue_lock_ # "worker"

\* a stop() has returned after a run that called forwards
StoppedMeansTerminatedWitness ==
  /\ cpc = "idle" /\ op = "stop"
  /\ fwdLog # <<>>

\* C8: the items passed to forwards, in call order, are the dispatched items
\* in the order they were pushed.
FifoAcrossBatches == fwdLog = Restrict(IdSeq(pushed), Range(fwdLog))

\* a batch of one item is being distributed after an earlier batch, with a
\* later item waiting in the queue
FifoAcrossBatchesWitness ==
  /\ wpc = "distribute" /\ Len(fetch_items) = 1
  /\ Len(fwdLog) >= 2
  /\ input_queue_ # <<>>

\* C9: the items a commits call has pushed are consecutive in push order, in
\* input order, with the returned futures in the same order, whatever other
\* producers push before and after it; while the call is still in its loop
\* nothing follows them.
BlockContiguous ==
  LET k == Len(out)
  IN /\ k <= Len(inp)
     /\ ~looping => k = Len(inp)
     /\ \E j \in 0..(Len(pushed) - k) :
          /\ \A i \in 1..k : /\ pushed[j + i].input = inp[i]
                             /\ pushed[j + i].id = out[i]
          /\ looping => j + k = Len(pushed)

\* a commits call has pushed a whole block behind the item of another producer
\* that is still inside its own call
BlockContiguousWitness ==
  /\ ~looping /\ Len(out) = MaxBlock
  /\ notifying >= 2
  /\ Len(pushed) > MaxBlock /\ pushed[1].id # out[1]

\* C10: during distribution item i of the batch is resolved with result i when
\* forwards returned one and with the default Result otherwise; outside
\* forwards and distribution every item passed to forwards is resolved.
DistributionPads ==
  /\ wpc = "distribute" =>
       \A i \in 0..(di - 1) :
         pro[fetch_items[i + 1].id] =
           <<[by |-> "worker",
              v |-> IF i < Len(ret) THEN ret[i + 1] ELSE Default]>>
  /\ ~(wpc \in {"forwards", "distribute"}) => \A id \in Ids : Forwarded(id) => Resolved(id)

\* a batch of two for which forwards returned one result has been distributed
DistributionPadsWitness ==
  /\ wpc = "distribute"
  /\ Len(fetch_items) = 2 /\ Len(ret) = 1 /\ di = 2

\* C11: every batch handed to forwards is the first min(max_items_processed_,
\* queue length) items of the queue at the drain, so it has at least one item
\* and at most max_items_processed_; an item the worker resolves gets the
\* result computed for its own input, or the default Result.
BatchBounded ==
  [][
      /\ wpc' \in {"forwards", "distribute"} =>
            /\ Len(fetch_items') >= 1
            /\ Len(fetch_items') <= max_items_processed_'
      /\ (wpc = "check_run" /\ wpc' = "forwards") =>
            LET k == Min(max_items_processed_, Len(input_queue_))
            IN /\ fetch_items' = SubSeq(input_queue_, 1, k)
               /\ input_queue_' = SubSeq(input_queue_, k + 1, Len(input_queue_))
      /\ \A id \in Ids : \A i \in 1..Len(pro'[id]) :
            pro'[id][i].by = "worker" =>
              pro'[id][i].v \in {Forward(pushed'[id].input), Default}
    ]_vars

\* with max_items_processed_ = 2 every committed item was processed, the last
\* one alone in its batch, and each got the result of its own input
BatchBoundedWitness ==
  /\ max_items_processed_ = 2
  /\ wpc = "distribute" /\ Len(fetch_items) = 1 /\ di = 1
  /\ Len(fwdLog) = MaxItems /\ input_queue_ = <<>>
  /\ \A id \in Ids : pro[id] = <<[by |-> "worker", v |-> Forward(InputOf(id))]>>

\* C12: start returns false exactly when the loader returned no Model; from
\* then until the next worker is spawned run_ stays false, the worker thread
\* has ended on its own, no Model is held or released, forwards is not called,
\* and a stop() made in that time is never kept waiting by the worker: the
\* worker does not hold the queue lock and the join finds the thread ended.
LoadFailure ==
  /\ [](
        /\ (cpc = "idle" /\ op = "start") =>
              /\ startRet <=> model = 1
              /\ ~startRet <=> status = "false"
        /\ status = "false" =>
              /\ ~run_ /\ model = 0
              /\ wpc \in {"done", "none"}
              /\ fetch_items = <<>> /\ ~waiting /\ queue_lock_ # "worker"
              /\ (cpc = "stop_join" /\ worker_) => Joinable
              /\ StopReturned => (~worker_ /\ wpc = "none")
       )
  /\ [][status = "false" => (fwdLog' = fwdLog /\ model' = model /\ run_' = run_)]_vars

\* a stop() has returned after a start that failed to load, with an item
\* committed in between
LoadFailureWitness ==
  /\ cpc = "idle" /\ op = "stop"
  /\ status = "false" /\ ~startRet
  /\ \E id \in Ids : pro[id] = <<[by |-> "stop", v |-> Default]>>

\* C13: start returns only once the worker has reported the loader's outcome
\* and returns that outcome; when it has returned true run_ is true, until
\* the next call; and the worker drains a batch only with run_ true and
\* success reported.
StartOrdering ==
  /\ [](
        /\ (cpc = "idle" /\ op = "start") =>
              /\ status # "unset"
              /\ ~(wpc \in {"load", "set_run", "status"})
        /\ Running => (run_ /\ status = "true" /\ model = 1)
        /\ wpc \in {"forwards", "distribute"} => status = "true"
       )
  /\ [][
        /\ (cpc = "start_wait" /\ cpc' = "idle") =>
              (status # "unset" /\ startRet' = (status = "true"))
        /\ (wpc = "check_run" /\ wpc' = "forwards") => (run_ /\ status = "true")
      ]_vars

\* start has returned true and the worker of that run is inside forwards
StartOrderingWitness ==
  /\ Running /\ run_
  /\ wpc = "forwards"

\* C14: the lifecycle state changes only along Stopped -> Loading ->
\* Running -> Stopped and Loading -> Stopped; a worker is spawned only when
\* the previous one has been joined, its Model released and run_ cleared, so
\* two runs never overlap.
LifecycleEdges ==
  [][
      /\ Life' # Life =>
            <<Life, Life'>> \in {<<"Stopped", "Loading">>, <<"Loading", "Running">>,
                                <<"Loading", "Stopped">>, <<"Running", "Stopped">>}
      /\ (Life = "Loading" /\ Life' = "Stopped") => (model' = 0 /\ status' = "false")
      /\ (Life = "Loading" /\ Life' = "Running") => (model' = 1 /\ run_')
      /\ (Life = "Running" /\ Life' = "Stopped") => (model' = 0 /\ ~run_')
      /\ wpc' = "load" =>
            /\ wpc \in {"none", "load"}
            /\ wpc = "none" =>
                  (~worker_ /\ model = 0 /\ ~run_ /\ ~waiting /\ fetch_items = <<>>)
    ]_vars

\* a start called on a Running engine has stopped that run, which had
\* processed an item, and its new worker is in the loader
LifecycleEdgesWitness ==
  /\ cpc = "start_wait" /\ wpc = "load"
  /\ startRet
  /\ fwdLog # <<>>

\* C15: at most one worker thread is alive at any time; it is the thread
\* worker_ holds, and forwards is only ever in progress in that one thread.
SingleConsumer ==
  /\ threads <= 1
  /\ threads = (IF wpc \in {"none", "done"} THEN 0 ELSE 1)
  /\ threads = 1 => worker_
  /\ wpc \in {"forwards", "distribute"} => threads = 1

\* the worker of a later run is inside forwards: an earlier run has processed
\* an item and a stop has flushed a later one
SingleConsumerWitness ==
  /\ Running /\ wpc = "forwards" /\ threads = 1
  /\ fwdLog # <<>>
  /\ \E id \in Ids : id > fwdLog[1] /\ ResolvedBy(id, "stop")

\* C16: the loader is called once per start, by the worker that start
\* spawned and while start waits; the worker holds the Model from then on,
\* calls forwards only while it holds it, releases it only where it leaves its
\* loop (line 179), and holds none when its thread ends or a new one is spawned.
ModelOwnership ==
  [][
      /\ (wpc' = "load" /\ wpc # "load") => (cpc = "start_spawn" /\ model = 0)
      /\ (wpc = "load" /\ wpc' # "load") => cpc = "start_wait"
      /\ (model = 0 /\ model' = 1) => (wpc = "load" /\ wpc' = "set_run")
      /\ (model = 1 /\ model' = 0) => (wpc = "exit" /\ wpc' = "exit_run")
      /\ (wpc' = "done" /\ wpc # "done") => model' = 0
      /\ wpc' \in {"set_run", "status", "lock", "wait", "blocked", "check_run",
                    "forwards", "distribute", "exit"} => model' = 1
      /\ fwdLog' # fwdLog => (wpc = "forwards" /\ model = 1 /\ model' = 1)
    ]_vars

\* a start called on a Running engine waits in the join of its stop while the
\* worker of the old run, which had called forwards, has just released its Model
ModelOwnershipWitness ==
  /\ cpc = "stop_join" /\ op = "start"
  /\ wpc = "exit_run" /\ model = 0
  /\ fwdLog # <<>>

LockNotHeldInForwards ==
  /\ wpc \in {"forwards", "distribute"} => queue_lock_ # "worker"
  /\ queue_lock_ = "worker" <=> wpc \in {"wait", "check_run"}

\* a commits call has taken the lock and is inside its loop while the worker
\* is inside forwards
LockNotHeldInForwardsWitness ==
  /\ wpc = "forwards"
  /\ queue_lock_ = "producer" /\ looping

\* C19: a stop() on an engine without a worker (never started, or already
\* stopped) changes neither run_, worker_, the worker nor any resolved
\* promise at any of its steps, and with an empty queue it changes nothing at
\* all but its own position; its join has nothing to wait for.
IdempotentStop ==
  /\ []((cpc = "stop_join" /\ ~worker_) => ENABLED StopJoin)
  /\ [][
        (InStop /\ ~worker_ /\ cpc' # cpc) =>
          /\ ~run_ /\ run_' = run_
          /\ worker_' = worker_
          /\ wpc = "none" /\ wpc' = wpc
          /\ model' = model /\ waiting' = waiting /\ queue_lock_' = queue_lock_
          /\ \A id \in Ids : pro[id] # <<>> => pro'[id] = pro[id]
          /\ input_queue_ = <<>> => (input_queue_' = <<>> /\ pro' = pro)
      ]_vars

\* after a run that processed an item was stopped, another stop() has reached
\* its join with no worker left to join
IdempotentStopWitness ==
  /\ cpc = "stop_join" /\ op = "stop"
  /\ ~worker_
  /\ fwdLog # <<>>

\* C20: every pushed item that is not yet resolved is in exactly one place,
\* the queue or the worker's batch; no item is in both or twice in either, an
\* item in the queue is unresolved, and nothing that was not pushed is in either.
Conservation ==
  LET q == SeqIds(input_queue_)
      f == SeqIds(fetch_items)
  IN /\ Cardinality(q) = Len(input_queue_)
     /\ Cardinality(f) = Len(fetch_items)
     /\ q \cap f = {}
     /\ q \cup f \subseteq SeqIds(pushed)
     /\ \A id \in SeqIds(pushed) : pro[id] = <<>> => id \in q \cup f
     /\ \A id \in q : pro[id] = <<>>

\* a stop() has flushed an item and waits in its join while the worker is in
\* forwards with a batch and a later item is already in the queue
ConservationWitness ==
  /\ cpc = "stop_join" /\ wpc = "forwards"
  /\ fetch_items # <<>> /\ input_queue_ # <<>>
  /\ \E id \in Ids : ResolvedBy(id, "stop")
====
